---- MODULE Spec2Model ----
(***************************************************************************)
(* Model of logparser_service/enhanced_ml_parser.py (EnhancedMLParser):    *)
(* characteristic detection, algorithm selection, the template-mining      *)
(* adapter with its regex fallback, field propagation, multi-line          *)
(* stitching and the orchestrating parse_logs_intelligently.               *)
(*                                                                         *)
(* Text is modelled as a sequence of tokens (a token is a run of           *)
(* characters the regular expressions of the source treat as a unit):      *)
(* a line is a sequence of tokens, a stitched message is lines joined by   *)
(* the newline token.  Python None is the string "None"; a value is        *)
(* "truthy" when it is neither None nor the empty string/sequence.         *)
(***************************************************************************)
EXTENDS Integers, Sequences, FiniteSets, TLC

VARIABLES
    lines,           \* argument of parse_logs_intelligently
    pc,              \* position inside parse_logs_intelligently
    best_algorithm,  \* result of select_best_algorithm
    tried,           \* algorithm names handed to parse_with_ml_algorithm, in order
    last,            \* what the last parse_with_ml_algorithm call did
    parsed,          \* entries as produced by the adapter or the regex fallback
    propagated,      \* entries after propagate_fields_across_entries
    result,          \* value returned by parse_logs_intelligently
    stages,          \* post-processing stages run so far, in order
    algo_idx,        \* position of the loop over fallback_algorithms
    temp_dir,        \* the tempfile.TemporaryDirectory of the call
    raised,          \* an exception left parse_logs_intelligently
    detected,        \* the local characteristics of parse_logs_intelligently
    http_pc,         \* position of the /parse handler parse_log of main.py
    file_lines,      \* the lines of the uploaded file
    unstructured_lines,  \* the lines parse_hybrid_json could not decode
    response,        \* status code and content of the HTTP response
    calls,           \* the calls of parse_logs_intelligently that run concurrently
    fs               \* the temporary directories and the files in them

vars == <<lines, pc, best_algorithm, tried, last, parsed, propagated,
          result, stages, algo_idx, temp_dir, raised, detected,
          http_pc, file_lines, unstructured_lines, response, calls, fs>>

\* the variables of the concurrent calls
concurrent_vars == <<calls, fs>>

\* the variables of the /parse handler
service_vars == <<http_pc, file_lines, unstructured_lines, response>>

-----------------------------------------------------------------------------
(* Bounds *)

MaxLines == 3

MaxEntries == 4
\* largest total_lines of a characteristics dict handed to select_best_algorithm
MaxTotalLines == 5

-----------------------------------------------------------------------------
(* Python values *)

None == "None"

\* truthiness of an optional string (None and "" are falsy)
Truthy(v) == v # None /\ v # ""

SeqsUpTo(S, n) == UNION {[1..k -> S] : k \in 0..n}

\* dict.update: keys of b overwrite keys of a
DictUpdate(a, b) ==
    [k \in (DOMAIN a) \cup (DOMAIN b) |-> IF k \in DOMAIN b THEN b[k] ELSE a[k]]

-----------------------------------------------------------------------------
(* Text *)

NL == "\n"

Whitespace == {"    ", "\t"}

RECURSIVE LStrip(_)
LStrip(s) == IF s # <<>> /\ Head(s) \in Whitespace THEN LStrip(Tail(s)) ELSE s

RECURSIVE RStrip(_)
RStrip(s) ==
    IF s # <<>> /\ s[Len(s)] \in Whitespace
    THEN RStrip(SubSeq(s, 1, Len(s) - 1))
    ELSE s

\* str.strip()
Strip(s) == RStrip(LStrip(s))

\* number of text lines of a message
LineCount(s) == 1 + Cardinality({i \in 1..Len(s) : s[i] = NL})

\* index of the first token of s that lies in set T, 0 when there is none
FirstIn(s, T) ==
    IF \E i \in 1..Len(s) : s[i] \in T
    THEN CHOOSE i \in 1..Len(s) : s[i] \in T /\ \A j \in 1..(i - 1) : s[j] \notin T
    ELSE 0

-----------------------------------------------------------------------------
(* Regular expressions of the source, as tables over tokens *)

\* timestamp_patterns: for each pattern, the tokens it matches and the text
\* of the group the code takes (group 1 when the pattern has one)
timestamp_patterns ==
    << ("2024-06-01T12:00:02Z" :> "2024-06-01T12:00:02Z"),
       ("2024-06-01 12:00:00" :> "2024-06-01 12:00:00"
            @@ "2024-06-01 12:00:01" :> "2024-06-01 12:00:01"
            @@ "[2024-06-01 12:00:00]" :> "2024-06-01 12:00:00"),
       ("[2024-06-01 12:00:00]" :> "2024-06-01 12:00:00"),
       ("06/01/2024 12:00:03" :> "06/01/2024 12:00:03") >>

\* texts datetime.strptime / fromisoformat accept, with dt.isoformat() of each
IsoFormat ==
    "2024-06-01T12:00:02Z" :> "2024-06-01T12:00:02"
        @@ "2024-06-01 12:00:00" :> "2024-06-01T12:00:00"
        @@ "2024-06-01 12:00:01" :> "2024-06-01T12:00:01"
        @@ "2024-06-01T12:00:00" :> "2024-06-01T12:00:00"
        @@ "2024-06-01T12:00:01" :> "2024-06-01T12:00:01"

normalize_timestamp(timestamp_str) ==
    IF ~Truthy(timestamp_str) THEN None
    ELSE IF timestamp_str \in DOMAIN IsoFormat THEN IsoFormat[timestamp_str]
    ELSE timestamp_str

RECURSIVE ExtractTimestampFrom(_, _)
ExtractTimestampFrom(line, p) ==
    IF p > Len(timestamp_patterns) THEN None
    ELSE LET i == FirstIn(line, DOMAIN timestamp_patterns[p])
         IN  IF i > 0 THEN normalize_timestamp(timestamp_patterns[p][line[i]])
             ELSE ExtractTimestampFrom(line, p + 1)

_extract_timestamp(line) == ExtractTimestampFrom(line, 1)

\* level_patterns: tokens matched (re.IGNORECASE) and group 1 upper-cased
level_patterns ==
    << ("INFO" :> "INFO" @@ "ERROR" :> "ERROR" @@ "Error" :> "ERROR"
            @@ "WARNING" :> "WARNING" @@ "CRITICAL" :> "CRITICAL"
            @@ "[ERROR]" :> "ERROR" @@ "level=debug" :> "DEBUG"),
       ("[ERROR]" :> "ERROR"),
       ("level=debug" :> "DEBUG") >>

CanonicalLevel(level) ==
    IF level \in {"WARN", "WARNING"} THEN "WARN"
    ELSE IF level \in {"ERR", "ERROR"} THEN "ERROR"
    ELSE IF level \in {"CRIT", "CRITICAL", "FATAL"} THEN "FATAL"
    ELSE IF level \in {"DBG", "DEBUG"} THEN "DEBUG"
    ELSE IF level \in {"INF", "INFO"} THEN "INFO"
    ELSE level

RECURSIVE ExtractLevelFrom(_, _)
ExtractLevelFrom(line, p) ==
    IF p > Len(level_patterns) THEN None
    ELSE LET i == FirstIn(line, DOMAIN level_patterns[p])
         IN  IF i > 0 THEN CanonicalLevel(level_patterns[p][line[i]])
             ELSE ExtractLevelFrom(line, p + 1)

_extract_level(line) == ExtractLevelFrom(line, 1)

\* case-sensitive fragments 'Exception', 'Error', 'Traceback' inside a token
CaseFragments ==
    "Exception" :> {"Exception"} @@ "Error" :> {"Error"}
        @@ "ValueError:" :> {"Error"}
        @@ "Traceback (most recent call last):" :> {"Traceback"}

\* continuation indicators found in the lower-cased token
LowerFragments ==
    "Exception" :> {"exception"} @@ "failed" :> {"failed"}
        @@ "more" :> {"more"} @@ "..." :> {"..."}
        @@ "ValueError:" :> {"error:"}
        @@ "Caused by:" :> {"caused by"}
        @@ "Traceback (most recent call last):" :> {"traceback"}

FragmentsOf(table, s) ==
    UNION {IF s[i] \in DOMAIN table THEN table[s[i]] ELSE {} : i \in 1..Len(s)}

continuation_indicators ==
    {"...", "continued", "more", "stack trace", "caused by", "suppressed",
     "nested exception", "traceback", "exception", "error:", "failed", "failed:"}

\* first tokens on which one of stack_trace_patterns matches message.strip()
StackTracePrefixes ==
    {"Traceback (most recent call last):", "ValueError:", "Caused by:", "raise"}

_is_continuation_line(message) ==
    IF message = <<>> \/ Strip(message) = <<>> THEN FALSE
    ELSE \/ Head(Strip(message)) \in StackTracePrefixes
         \/ (Head(Strip(message)) = "at" /\ Len(Strip(message)) >= 2)
         \/ Head(message) \in Whitespace
         \/ FragmentsOf(LowerFragments, message) \cap continuation_indicators # {}

-----------------------------------------------------------------------------
(* Field extractor *)

fallback_entry(line) ==
    [timestamp |-> _extract_timestamp(line),
     level     |-> _extract_level(line),
     message   |-> line,
     metadata  |-> [ml_template |-> line, ml_confidence |-> "0.5",
                    parsing_method |-> "regex_fallback"],
     rawData   |-> line]

\* variant that does not skip blank lines
RECURSIVE fallback_parsing_keep_blank(_)
fallback_parsing_keep_blank(ls) ==
    IF ls = <<>> THEN <<>>
    ELSE <<fallback_entry(Head(ls))>> \o fallback_parsing_keep_blank(Tail(ls))

RECURSIVE fallback_parsing(_)
fallback_parsing(ls) ==
    IF ls = <<>> THEN <<>>
    ELSE IF Strip(Head(ls)) = <<>> THEN fallback_parsing(Tail(ls))
    ELSE <<fallback_entry(Head(ls))>> \o fallback_parsing(Tail(ls))

\* the additional-field patterns of extract_structured_fields_from_ml_content
\* that have a token in this model: field name and matched text per token
patterns ==
    << [field_name |-> "ip_address", m |-> ("10.0.0.1" :> "10.0.0.1")],
       [field_name |-> "request_id", m |-> ("request_id=abc" :> "abc")] >>

\* re.findall
FindAll(m, content) ==
    LET hits == SelectSeq(content, LAMBDA t : t \in DOMAIN m)
    IN  [i \in 1..Len(hits) |-> m[hits[i]]]

RECURSIVE AddPatternFields(_, _, _)
AddPatternFields(metadata, content, p) ==
    IF p > Len(patterns) THEN metadata
    ELSE LET matches == FindAll(patterns[p].m, content)
             md == IF matches = <<>> THEN metadata
                   ELSE IF Len(matches) = 1
                        THEN DictUpdate(metadata, patterns[p].field_name :> matches[1])
                        ELSE DictUpdate(metadata, patterns[p].field_name :> matches)
         IN  AddPatternFields(md, content, p + 1)

extract_structured_fields_from_ml_content(content, template) ==
    [timestamp |-> ExtractTimestampFrom(content, 1),
     level     |-> ExtractLevelFrom(content, 1),
     message   |-> content,
     metadata  |-> AddPatternFields([ml_template |-> template, ml_confidence |-> "0.8"],
                                    content, 1),
     rawData   |-> content]

convert_ml_results_to_entries(df) ==
    [idx \in 1..Len(df) |->
        extract_structured_fields_from_ml_content(df[idx].Content, df[idx].EventTemplate)]

-----------------------------------------------------------------------------
(* Field propagator *)

\* the loop of propagate_fields_across_entries from entry i on, with the
\* last seen timestamp and level
RECURSIVE PropagateFrom(_, _, _, _)
PropagateFrom(entries, i, last_timestamp, last_level) ==
    IF i > Len(entries) THEN entries
    ELSE LET entry == entries[i]
             ts  == IF Truthy(entry.timestamp) THEN entry.timestamp ELSE last_timestamp
             lvl == IF Truthy(entry.level) THEN entry.level ELSE last_level
         IN  PropagateFrom([entries EXCEPT ![i].timestamp = ts, ![i].level = lvl],
                           i + 1, ts, lvl)

\* variant that keeps the first value seen instead of the last
RECURSIVE PropagateFirstSeen(_, _, _, _)
PropagateFirstSeen(entries, i, first_timestamp, first_level) ==
    IF i > Len(entries) THEN entries
    ELSE LET entry == entries[i]
             ts  == IF Truthy(first_timestamp) THEN first_timestamp ELSE entry.timestamp
             lvl == IF Truthy(first_level) THEN first_level ELSE entry.level
         IN  PropagateFirstSeen(
                 [entries EXCEPT
                     ![i].timestamp = IF Truthy(entry.timestamp) THEN entry.timestamp
                                      ELSE first_timestamp,
                     ![i].level = IF Truthy(entry.level) THEN entry.level
                                  ELSE first_level],
                 i + 1,
                 IF Truthy(ts) THEN ts ELSE None,
                 IF Truthy(lvl) THEN lvl ELSE None)

propagate_fields_first_seen(entries) == PropagateFirstSeen(entries, 1, None, None)

\* variant that also forward-fills the trace_id kept in the metadata
RECURSIVE PropagateWithTraceId(_, _, _, _, _)
PropagateWithTraceId(entries, i, last_timestamp, last_level, last_trace_id) ==
    IF i > Len(entries) THEN entries
    ELSE LET entry == entries[i]
             ts  == IF Truthy(entry.timestamp) THEN entry.timestamp ELSE last_timestamp
             lvl == IF Truthy(entry.level) THEN entry.level ELSE last_level
             own == IF "trace_id" \in DOMAIN entry.metadata
                    THEN entry.metadata.trace_id ELSE None
             tid == IF Truthy(own) THEN own ELSE last_trace_id
             md  == IF Truthy(own) \/ ~Truthy(last_trace_id) THEN entry.metadata
                    ELSE DictUpdate(entry.metadata, [trace_id |-> last_trace_id])
         IN  PropagateWithTraceId(
                 [entries EXCEPT ![i].timestamp = ts, ![i].level = lvl, ![i].metadata = md],
                 i + 1, ts, lvl, tid)

propagate_fields_with_trace_id(entries) ==
    PropagateWithTraceId(entries, 1, None, None, None)

\* variant that forward-fills the timestamp only
propagate_fields_timestamp_only(entries) ==
    LET filled == PropagateFrom(entries, 1, None, None)
    IN  [i \in 1..Len(entries) |-> [filled[i] EXCEPT !.level = entries[i].level]]

propagate_fields_across_entries(entries) == PropagateFrom(entries, 1, None, None)

-----------------------------------------------------------------------------
(* Multi-line stitcher *)

\* current_entry['message'] += '\n' + message, then the metadata update
AppendContinuation(current_entry, message, entry) ==
    [current_entry EXCEPT
        !.message  = current_entry.message \o <<NL>> \o message,
        !.metadata = DictUpdate(current_entry.metadata, entry.metadata)]

\* the regular expression ^\d{4}-\d{2}-\d{2} \d{2}:\d{2}:\d{2}$
DateTimeOnly == {"2024-06-01 12:00:00", "2024-06-01 12:00:01"}

is_timestamp_only(timestamp, message) ==
    /\ Truthy(timestamp)
    /\ \/ Strip(message) = <<>>
       \/ Strip(message) = <<timestamp>>
       \/ (Len(Strip(message)) = 1 /\ Strip(message)[1] \in DateTimeOnly)

is_new_stack_trace(timestamp, level, message) ==
    /\ Truthy(timestamp)
    /\ level = "ERROR"
    /\ FragmentsOf(CaseFragments, message) \cap {"Exception", "Error", "Traceback"} # {}

\* variant whose timestamp-only absorption does not step over the absorbed record
StitchStep_no_skip(entries, st) ==
    LET i == st.i
        entry0 == entries[i]
        message == entry0.message
        timestamp == entry0.timestamp
        level == entry0.level
        is_continuation == _is_continuation_line(message)
        is_new_entry == Truthy(timestamp) /\ Truthy(level) /\ ~is_continuation
        absorb == /\ is_timestamp_only(timestamp, message)
                  /\ i + 1 <= Len(entries)
                  /\ ~Truthy(entries[i + 1].timestamp)
                  /\ Strip(entries[i + 1].message) # <<>>
        entry == IF absorb
                 THEN [entry0 EXCEPT
                          !.message  = entries[i + 1].message,
                          !.metadata = DictUpdate(entry0.metadata, entries[i + 1].metadata)]
                 ELSE entry0
        i2 == i
        startNew == [i |-> i2 + 1, current |-> <<entry>>,
                     stitched |-> st.stitched \o st.current]
        append == [i |-> i2 + 1,
                   current |-> <<AppendContinuation(st.current[1], message, entry)>>,
                   stitched |-> st.stitched]
    IN  IF is_new_stack_trace(timestamp, level, message) THEN startNew
        ELSE IF is_continuation /\ st.current # <<>> THEN append
        ELSE IF is_new_entry THEN startNew
        ELSE IF st.current # <<>> /\ (is_continuation \/ ~Truthy(timestamp)) THEN append
        ELSE startNew

\* variant whose last branch appends only what the classifier accepts
StitchStep_continuation_only(entries, st) ==
    LET i == st.i
        entry0 == entries[i]
        message == entry0.message
        timestamp == entry0.timestamp
        level == entry0.level
        is_continuation == _is_continuation_line(message)
        is_new_entry == Truthy(timestamp) /\ Truthy(level) /\ ~is_continuation
        absorb == /\ is_timestamp_only(timestamp, message)
                  /\ i + 1 <= Len(entries)
                  /\ ~Truthy(entries[i + 1].timestamp)
                  /\ Strip(entries[i + 1].message) # <<>>
        entry == IF absorb
                 THEN [entry0 EXCEPT
                          !.message  = entries[i + 1].message,
                          !.metadata = DictUpdate(entry0.metadata, entries[i + 1].metadata)]
                 ELSE entry0
        i2 == IF absorb THEN i + 1 ELSE i
        startNew == [i |-> i2 + 1, current |-> <<entry>>,
                     stitched |-> st.stitched \o st.current]
        append == [i |-> i2 + 1,
                   current |-> <<AppendContinuation(st.current[1], message, entry)>>,
                   stitched |-> st.stitched]
    IN  IF is_new_stack_trace(timestamp, level, message) THEN startNew
        ELSE IF is_continuation /\ st.current # <<>> THEN append
        ELSE IF is_new_entry THEN startNew
        ELSE IF st.current # <<>> /\ is_continuation THEN append
        ELSE startNew

\* one iteration of the while loop of stitch_multiline_logs; st.current is
\* <<>> (None) or <<current_entry>>
StitchStep(entries, st) ==
    LET i == st.i
        entry0 == entries[i]
        message == entry0.message
        timestamp == entry0.timestamp
        level == entry0.level
        is_continuation == _is_continuation_line(message)
        is_new_entry == Truthy(timestamp) /\ Truthy(level) /\ ~is_continuation
        absorb == /\ is_timestamp_only(timestamp, message)
                  /\ i + 1 <= Len(entries)
                  /\ ~Truthy(entries[i + 1].timestamp)
                  /\ Strip(entries[i + 1].message) # <<>>
        entry == IF absorb
                 THEN [entry0 EXCEPT
                          !.message  = entries[i + 1].message,
                          !.metadata = DictUpdate(entry0.metadata, entries[i + 1].metadata)]
                 ELSE entry0
        i2 == IF absorb THEN i + 1 ELSE i
        startNew == [i |-> i2 + 1, current |-> <<entry>>,
                     stitched |-> st.stitched \o st.current]
        append == [i |-> i2 + 1,
                   current |-> <<AppendContinuation(st.current[1], message, entry)>>,
                   stitched |-> st.stitched]
    IN  IF is_new_stack_trace(timestamp, level, message) THEN startNew
        ELSE IF is_continuation /\ st.current # <<>> THEN append
        ELSE IF is_new_entry THEN startNew
        ELSE IF st.current # <<>> /\ (is_continuation \/ ~Truthy(timestamp)) THEN append
        ELSE startNew

RECURSIVE StitchLoop(_, _)
StitchLoop(entries, st) ==
    IF st.i > Len(entries) THEN st.stitched \o st.current
    ELSE StitchLoop(entries, StitchStep(entries, st))

\* variant without the all-entries-complete guard
stitch_multiline_logs_unguarded(entries) ==
    IF entries = <<>> THEN entries
    ELSE StitchLoop(entries, [i |-> 1, current |-> <<>>, stitched |-> <<>>])

stitch_multiline_logs(entries) ==
    IF entries = <<>> THEN entries
    ELSE IF \A i \in 1..Len(entries) :
                Truthy(entries[i].timestamp) /\ Truthy(entries[i].level)
         THEN entries
    ELSE StitchLoop(entries, [i |-> 1, current |-> <<>>, stitched |-> <<>>])

-----------------------------------------------------------------------------
(* Characteristic analyzer and algorithm selector *)

\* tokens on which the detection regular expressions match
DateTokens == {"2024-06-01T12:00:02Z", "2024-06-01 12:00:00",
               "2024-06-01 12:00:01", "[2024-06-01 12:00:00]"}
IpTokens == {"10.0.0.1"}
HexTokens == {"deadbeef01"}
UuidTokens == {}
JsonTokens == {"{\"a\":1}"}
StructuredTokens == DateTokens \cup {"foo.bar(x.js:1)", "request_id=abc", "level=debug",
                                     "ValueError:", "Caused by:", "{\"a\":1}",
                                     "06/01/2024 12:00:03",
                                     "Traceback (most recent call last):"}

AnyLineHas(ls, T) == \E i \in 1..Len(ls) : \E j \in 1..Len(ls[i]) : ls[i][j] \in T

RECURSIVE SumLen(_)
SumLen(ls) == IF ls = <<>> THEN 0 ELSE Len(Head(ls)) + SumLen(Tail(ls))

\* a ratio a/b is kept as <<a, b>>; line lengths are counted in tokens
detect_log_characteristics(ls) ==
    IF Len(ls) = 0 THEN [fault |-> "ZeroDivisionError"]
    ELSE LET unique == Cardinality({ls[i] : i \in 1..Len(ls)})
         IN  [fault |-> None,
              total_lines |-> Len(ls),
              avg_line_length |-> <<SumLen(ls), Len(ls)>>,
              unique_lines |-> unique,
              duplicate_ratio |-> <<Len(ls) - unique, Len(ls)>>,
              has_timestamps |-> AnyLineHas(ls, DateTokens),
              has_ips |-> AnyLineHas(ls, IpTokens),
              has_hex |-> AnyLineHas(ls, HexTokens),
              has_uuids |-> AnyLineHas(ls, UuidTokens),
              has_json |-> \E i \in 1..Len(ls) :
                              /\ Strip(ls[i]) # <<>>
                              /\ Head(Strip(ls[i])) \in JsonTokens
                              /\ Strip(ls[i])[Len(Strip(ls[i]))] \in JsonTokens,
              has_structured |-> AnyLineHas(ls, StructuredTokens)]

\* r > a/b for a ratio r = <<n, d>> with d > 0
RatioGreater(r, a, b) == r[1] * b > a * r[2]

\* variant that tests the high-diversity rule before the duplicate rule
select_best_algorithm_diversity_first(characteristics) ==
    IF characteristics.has_json THEN "drain"
    ELSE IF characteristics.total_lines = 0 THEN "ZeroDivisionError"
    ELSE IF RatioGreater(<<characteristics.unique_lines, characteristics.total_lines>>, 8, 10)
         THEN "logmine"
    ELSE IF RatioGreater(characteristics.duplicate_ratio, 7, 10) THEN "spell"
    ELSE IF characteristics.has_timestamps /\ characteristics.has_ips THEN "iplom"
    ELSE IF characteristics.has_hex \/ characteristics.has_uuids THEN "logcluster"
    ELSE "drain"

select_best_algorithm(characteristics) ==
    IF characteristics.has_json THEN "drain"
    ELSE IF RatioGreater(characteristics.duplicate_ratio, 7, 10) THEN "spell"
    ELSE IF characteristics.total_lines = 0 THEN "ZeroDivisionError"
    ELSE IF RatioGreater(<<characteristics.unique_lines, characteristics.total_lines>>, 8, 10)
         THEN "logmine"
    ELSE IF characteristics.has_timestamps /\ characteristics.has_ips THEN "iplom"
    ELSE IF characteristics.has_hex \/ characteristics.has_uuids THEN "logcluster"
    ELSE "drain"

-----------------------------------------------------------------------------
(* Template-mining adapter *)

algorithms == {"drain", "spell", "iplom", "logcluster", "lenma", "lfa", "lke",
               "logmine", "logsig", "logram", "slct", "ulp", "brain", "ael"}

\* what can happen once parse_with_ml_algorithm has non-empty lines:
\*   io_error   writing input.log raises (outside the try block)
\*   raise      the engine (or reading its output) raises
\*   no_output  no input.log_structured.csv exists after the engine ran
\*   per_line   the csv has one row per line
\*   collapsed  the csv has a single row
\*   empty      the csv has no row
EngineOutcomes == {"io_error", "raise", "no_output", "per_line", "collapsed", "empty"}

VariableTokens == DateTokens \cup IpTokens \cup HexTokens

\* the template the engine reports for a line: variable tokens become <*>
EventTemplate(line) ==
    [j \in 1..Len(line) |-> IF line[j] \in VariableTokens THEN "<*>" ELSE line[j]]

\* the rows of input.log_structured.csv
StructuredCsv(non_empty_lines, outcome) ==
    LET rows == [i \in 1..Len(non_empty_lines) |->
                    [Content |-> non_empty_lines[i],
                     EventTemplate |-> EventTemplate(non_empty_lines[i])]]
    IN  IF outcome = "per_line" THEN rows
        ELSE IF outcome = "collapsed" THEN SubSeq(rows, 1, 1)
        ELSE <<>>

NonEmptyLines(ls) ==
    LET stripped == [i \in 1..Len(ls) |-> Strip(ls[i])]
    IN  SelectSeq(stripped, LAMBDA l : l # <<>>)

\* variant whose except clause lets the engine's exception through
parse_with_ml_algorithm_reraise(ls, algorithm_name, outcome) ==
    LET non_empty_lines == NonEmptyLines(ls)
    IN  IF non_empty_lines = <<>>
        THEN [raised |-> FALSE, entries |-> <<>>, outcome |-> "not_run", via |-> "none"]
        ELSE IF outcome \in {"io_error", "raise"}
        THEN [raised |-> TRUE, entries |-> <<>>, outcome |-> outcome, via |-> "none"]
        ELSE IF algorithm_name \notin algorithms \/ outcome = "no_output"
        THEN [raised |-> FALSE, entries |-> fallback_parsing(non_empty_lines),
              outcome |-> outcome, via |-> "fallback_parsing"]
        ELSE [raised |-> FALSE,
              entries |-> convert_ml_results_to_entries(
                              StructuredCsv(non_empty_lines, outcome)),
              outcome |-> outcome, via |-> "engine"]

\* result: raised (exception leaves the function), entries (the list returned),
\* outcome (not_run when the engine is never invoked) and via (what produced
\* the entries)
parse_with_ml_algorithm(ls, algorithm_name, outcome) ==
    LET non_empty_lines == NonEmptyLines(ls)
    IN  IF non_empty_lines = <<>>
        THEN [raised |-> FALSE, entries |-> <<>>, outcome |-> "not_run", via |-> "none"]
        ELSE IF outcome = "io_error"
        THEN [raised |-> TRUE, entries |-> <<>>, outcome |-> outcome, via |-> "none"]
        ELSE IF algorithm_name \notin algorithms \/ outcome \in {"raise", "no_output"}
        THEN [raised |-> FALSE, entries |-> fallback_parsing(non_empty_lines),
              outcome |-> outcome, via |-> "fallback_parsing"]
        ELSE [raised |-> FALSE,
              entries |-> convert_ml_results_to_entries(
                              StructuredCsv(non_empty_lines, outcome)),
              outcome |-> outcome, via |-> "engine"]

-----------------------------------------------------------------------------
(* Orchestrator: parse_logs_intelligently, one action per stage *)

\* the lines a batch is drawn from
SampleLines ==
    { <<"2024-06-01 12:00:00", "INFO", "start">>,
      <<"2024-06-01 12:00:01", "ERROR", "boom">>,
      <<"    ", "at", "foo.bar(x.js:1)">>,
      <<"hello">>,
      <<"world">>,
      <<"deadbeef01", "hello">>,
      <<>>,
      <<"    ">> }

fallback_algorithms == <<"drain", "spell", "logcluster">>

\* two callers of ml_parser.parse_logs_intelligently
CallIds == {1, 2}

\* names tempfile.TemporaryDirectory can give a new directory
TempDirNames == {"tmp1", "tmp2"}

\* a directory that does not exist, and one that was just created
NoDir == [exists |-> FALSE, has_input |-> FALSE, input |-> <<>>,
          has_csv |-> FALSE, csv |-> <<>>]

EmptyDir == [NoDir EXCEPT !.exists = TRUE]

\* the locals of a call that has not started
NoCallYet == [pc |-> "idle", lines |-> <<>>, best_algorithm |-> None,
              algorithm |-> None, algo_idx |-> 0, temp_dir |-> None,
              outcome |-> "not_run", via_regex |-> FALSE, entries |-> <<>>,
              result |-> <<>>, overlap |-> FALSE]

\* the /parse handler has not been called, and no concurrent call runs
NoRequest ==
    /\ http_pc = "idle"
    /\ file_lines = <<>>
    /\ unstructured_lines = <<>>
    /\ response = [status_code |-> 0, content |-> <<>>]
    /\ calls = [c \in CallIds |-> NoCallYet]
    /\ fs = [d \in TempDirNames |-> NoDir]

\* the local variable characteristics before its assignment
NoCharacteristics == [fault |-> "unassigned"]

NoCall == [algorithm |-> None, raised |-> FALSE, entries |-> <<>>,
           outcome |-> "not_run", via |-> "none"]

Init ==
    /\ lines = <<>>
    /\ pc = "idle"
    /\ best_algorithm = None
    /\ tried = <<>>
    /\ last = NoCall
    /\ parsed = <<>>
    /\ propagated = <<>>
    /\ result = <<>>
    /\ stages = <<>>
    /\ algo_idx = 0
    /\ temp_dir = "none"
    /\ raised = FALSE
    /\ detected = NoCharacteristics
    /\ NoRequest

\* entry of parse_logs_intelligently: the empty batch returns at once
Call(ls) ==
    /\ pc = "idle"
    /\ lines' = ls
    /\ IF ls = <<>>
       THEN /\ pc' = "done"
            /\ result' = <<>>
       ELSE /\ pc' = "analyze"
            /\ UNCHANGED result
    /\ UNCHANGED <<best_algorithm, tried, last, parsed, propagated, stages, algo_idx,
                   temp_dir, raised, detected>>
    /\ UNCHANGED service_vars
    /\ UNCHANGED concurrent_vars

\* characteristics = self.detect_log_characteristics(lines)
DetectCharacteristics ==
    /\ pc = "analyze"
    /\ detected' = detect_log_characteristics(lines)
    /\ IF detected'.fault # None
       THEN /\ pc' = "done"
            /\ raised' = TRUE
       ELSE /\ pc' = "select"
            /\ UNCHANGED raised
    /\ UNCHANGED <<lines, best_algorithm, tried, last, parsed, propagated, result,
                   stages, algo_idx, temp_dir>>
    /\ UNCHANGED service_vars
    /\ UNCHANGED concurrent_vars

\* best_algorithm = self.select_best_algorithm(characteristics), then the
\* creation of the temporary directory
SelectAlgorithm ==
    /\ pc = "select"
    /\ LET best == select_best_algorithm(detected)
       IN  IF best = "ZeroDivisionError"
           THEN /\ pc' = "done"
                /\ raised' = TRUE
                /\ UNCHANGED <<best_algorithm, temp_dir>>
           ELSE /\ pc' = "primary"
                /\ best_algorithm' = best
                /\ temp_dir' = "open"
                /\ UNCHANGED raised
    /\ UNCHANGED <<lines, tried, last, parsed, propagated, result, stages, algo_idx,
                   detected>>
    /\ UNCHANGED service_vars
    /\ UNCHANGED concurrent_vars

\* one guarded call of parse_with_ml_algorithm: a non-empty result goes on to
\* the post-processing, an empty result or an exception to the next algorithm
Attempt(algorithm_name, outcome, next_idx) ==
    LET r == parse_with_ml_algorithm(lines, algorithm_name, outcome)
    IN  /\ tried' = Append(tried, algorithm_name)
        /\ last' = [algorithm |-> algorithm_name, raised |-> r.raised,
                    entries |-> r.entries, outcome |-> r.outcome, via |-> r.via]
        /\ IF ~r.raised /\ r.entries # <<>>
           THEN /\ parsed' = r.entries
                /\ pc' = "propagate"
                /\ UNCHANGED algo_idx
           ELSE /\ pc' = "backup"
                /\ algo_idx' = next_idx
                /\ UNCHANGED parsed

TryPrimary(outcome) ==
    /\ pc = "primary"
    /\ Attempt(best_algorithm, outcome, 1)
    /\ UNCHANGED <<detected, lines, best_algorithm, propagated, result, stages, temp_dir, raised>>
    /\ UNCHANGED service_vars
    /\ UNCHANGED concurrent_vars

\* one iteration of the loop over fallback_algorithms
TryFallbackAlgorithm(outcome) ==
    /\ pc = "backup"
    /\ algo_idx <= Len(fallback_algorithms)
    /\ IF fallback_algorithms[algo_idx] # best_algorithm
       THEN Attempt(fallback_algorithms[algo_idx], outcome, algo_idx + 1)
       ELSE /\ algo_idx' = algo_idx + 1
            /\ UNCHANGED <<tried, last, parsed, pc>>
    /\ UNCHANGED <<detected, lines, best_algorithm, propagated, result, stages, temp_dir, raised>>
    /\ UNCHANGED service_vars
    /\ UNCHANGED concurrent_vars

\* final fallback to regex parsing, after the loop
RegexFallback ==
    /\ pc = "backup"
    /\ algo_idx > Len(fallback_algorithms)
    /\ parsed' = fallback_parsing(lines)
    /\ pc' = "propagate"
    /\ UNCHANGED <<detected, lines, best_algorithm, tried, last, propagated, result, stages,
                   algo_idx, temp_dir, raised>>
    /\ UNCHANGED service_vars
    /\ UNCHANGED concurrent_vars

\* variant that hands the parsed entries to the stitcher unpropagated
Propagate_skipped ==
    /\ pc = "propagate"
    /\ propagated' = parsed
    /\ pc' = "stitch"
    /\ UNCHANGED <<detected, lines, best_algorithm, tried, last, parsed, result, algo_idx,
                   temp_dir, raised, stages>>
    /\ UNCHANGED service_vars
    /\ UNCHANGED concurrent_vars

Propagate ==
    /\ pc = "propagate"
    /\ propagated' = propagate_fields_across_entries(parsed)
    /\ stages' = Append(stages, "propagate")
    /\ pc' = "stitch"
    /\ UNCHANGED <<detected, lines, best_algorithm, tried, last, parsed, result, algo_idx,
                   temp_dir, raised>>
    /\ UNCHANGED service_vars
    /\ UNCHANGED concurrent_vars

\* variant whose return leaves the temporary directory behind
Stitch_keep_temp_dir ==
    /\ pc = "stitch"
    /\ result' = stitch_multiline_logs(propagated)
    /\ stages' = Append(stages, "stitch")
    /\ pc' = "done"
    /\ UNCHANGED <<detected, lines, best_algorithm, tried, last, parsed, propagated, algo_idx,
                   raised, temp_dir>>
    /\ UNCHANGED service_vars
    /\ UNCHANGED concurrent_vars

\* stitching, the return and the exit of the with block
Stitch ==
    /\ pc = "stitch"
    /\ result' = stitch_multiline_logs(propagated)
    /\ stages' = Append(stages, "stitch")
    /\ pc' = "done"
    /\ temp_dir' = "removed"
    /\ UNCHANGED <<detected, lines, best_algorithm, tried, last, parsed, propagated, algo_idx,
                   raised>>
    /\ UNCHANGED service_vars
    /\ UNCHANGED concurrent_vars

Next ==
    \/ \E ls \in SeqsUpTo(SampleLines, MaxLines) : Call(ls)
    \/ DetectCharacteristics
    \/ SelectAlgorithm
    \/ \E outcome \in EngineOutcomes : TryPrimary(outcome)
    \/ \E outcome \in EngineOutcomes : TryFallbackAlgorithm(outcome)
    \/ RegexFallback
    \/ Propagate
    \/ Stitch

Spec == Init /\ [][Next]_vars

\* the final regex fallback produced the entries
UsedRegexFallback ==
    pc \in {"propagate", "stitch", "done"} /\ algo_idx > Len(fallback_algorithms)

-----------------------------------------------------------------------------
(* The stitcher and the propagator on arbitrary entry sequences *)

Entry(timestamp, level, message) ==
    [timestamp |-> timestamp, level |-> level, message |-> message,
     metadata |-> [ml_template |-> message, ml_confidence |-> "0.5",
                   parsing_method |-> "regex_fallback"],
     rawData |-> message]

\* entries handed to stitch_multiline_logs
SampleEntries ==
    { Entry("2024-06-01T12:00:00", "INFO", <<"start">>),
      Entry("2024-06-01T12:00:01", "ERROR", <<"boom">>),
      Entry("2024-06-01T12:00:01", "INFO", <<"job", "failed">>),
      Entry("2024-06-01T12:00:01", "ERROR", <<"Exception", "x">>),
      Entry("2024-06-01T12:00:00", None, <<"start">>),
      Entry("2024-06-01T12:00:00", None, <<"2024-06-01 12:00:00">>),
      Entry(None, None, <<"    ", "at", "foo.bar(x.js:1)">>),
      Entry(None, None, <<"\t", "at", "baz">>),
      Entry(None, None, <<"hello">>),
      Entry("2024-06-01T12:00:01", "WARN", <<"Exception", "x">>),
      Entry("2024-06-01T12:00:01", None, <<"2024-06-01T12:00:01">>),
      Entry("2024-06-01T12:00:00", "INFO", <<>>),
      Entry(None, None, <<"one", "more">>) }

\* entries handed to propagate_fields_across_entries; some carry a trace_id,
\* in the metadata or as a key of the entry itself
SamplePropagateEntries ==
    { [Entry("2024-06-01T12:00:00", "INFO", <<"start">>) EXCEPT
          !.metadata = DictUpdate(@, [trace_id |-> "X"])],
      Entry("2024-06-01T12:00:01", "ERROR", <<"boom">>) @@ [trace_id |-> "Y"],
      Entry("2024-06-01T12:00:01", None, <<"start">>),
      Entry(None, "WARN", <<"hello">>),
      Entry("", None, <<"hello">>),
      Entry(None, None, <<"    ", "at", "foo.bar(x.js:1)">>) }

InitStitch ==
    /\ lines = <<>>
    /\ pc = "stitch"
    /\ best_algorithm = None
    /\ tried = <<>>
    /\ last = NoCall
    /\ parsed = <<>>
    /\ propagated \in SeqsUpTo(SampleEntries, MaxEntries)
    /\ result = <<>>
    /\ stages = <<>>
    /\ algo_idx = 0
    /\ temp_dir = "open"
    /\ raised = FALSE
    /\ detected = NoCharacteristics
    /\ NoRequest

SpecStitch == InitStitch /\ [][Stitch]_vars

InitPropagate ==
    /\ lines = <<>>
    /\ pc = "propagate"
    /\ best_algorithm = None
    /\ tried = <<>>
    /\ last = NoCall
    /\ parsed \in SeqsUpTo(SamplePropagateEntries, MaxEntries)
    /\ propagated = <<>>
    /\ result = <<>>
    /\ stages = <<>>
    /\ algo_idx = 0
    /\ temp_dir = "open"
    /\ raised = FALSE
    /\ detected = NoCharacteristics
    /\ NoRequest

SpecPropagate == InitPropagate /\ [][Propagate]_vars

-----------------------------------------------------------------------------
(* The analyzer and the selector on arbitrary inputs *)

InitDetect ==
    /\ lines \in SeqsUpTo(SampleLines, MaxLines)
    /\ pc = "analyze"
    /\ best_algorithm = None
    /\ tried = <<>>
    /\ last = NoCall
    /\ parsed = <<>>
    /\ propagated = <<>>
    /\ result = <<>>
    /\ stages = <<>>
    /\ algo_idx = 0
    /\ temp_dir = "none"
    /\ raised = FALSE
    /\ detected = NoCharacteristics
    /\ NoRequest

SpecDetect == InitDetect /\ [][DetectCharacteristics]_vars

\* characteristics dicts handed to select_best_algorithm
SampleCharacteristics ==
    { [fault |-> None,
       total_lines |-> n,
       avg_line_length |-> <<n, 1>>,
       unique_lines |-> u,
       duplicate_ratio |-> d,
       has_timestamps |-> b[1],
       has_ips |-> b[2],
       has_hex |-> b[3],
       has_uuids |-> b[4],
       has_json |-> b[5],
       has_structured |-> b[1]] :
         n \in 0..MaxTotalLines,
         u \in 0..MaxTotalLines,
         d \in {<<0, 1>>, <<7, 10>>, <<3, 4>>},
         b \in [1..5 -> BOOLEAN] }

InitSelect ==
    /\ lines = <<>>
    /\ pc = "select"
    /\ best_algorithm = None
    /\ tried = <<>>
    /\ last = NoCall
    /\ parsed = <<>>
    /\ propagated = <<>>
    /\ result = <<>>
    /\ stages = <<>>
    /\ algo_idx = 0
    /\ temp_dir = "none"
    /\ raised = FALSE
    /\ detected \in {c \in SampleCharacteristics : c.unique_lines <= c.total_lines}
    /\ NoRequest

SpecSelect == InitSelect /\ [][SelectAlgorithm]_vars

-----------------------------------------------------------------------------
(* main.py: JSON values *)

\* a JSON value with its type; the value of a number is its decimal text,
\* the value of an object the function from its keys to its members
JString(text) == [type |-> "string", value |-> text]
JNumber(text) == [type |-> "number", value |-> text]
JObject(members) == [type |-> "object", value |-> members]

\* json.loads: the texts that decode, with the value of each; every other
\* text raises json.JSONDecodeError
JsonDocuments ==
    "{\"timestamp\": \"2025-07-04T10:00:00Z\", \"level\": \"INFO\", \"message\": \"App starting\", \"metadata\": {\"foo\": \"bar\"}}"
        :> JObject([timestamp |-> JString("2025-07-04T10:00:00Z"),
                    level |-> JString("INFO"),
                    message |-> JString("App starting"),
                    metadata |-> JObject([foo |-> JString("bar")])])
    @@ "{\"timestamp\": \"2025-07-04T10:00:01Z\", \"level\": \"ERROR\", \"message\": \"Something failed\", \"metadata\": {\"error_code\": 123}}"
        :> JObject([timestamp |-> JString("2025-07-04T10:00:01Z"),
                    level |-> JString("ERROR"),
                    message |-> JString("Something failed"),
                    metadata |-> JObject([error_code |-> JNumber("123")])])
    @@ "{\"ts\":\"2024-06-01 12:00:00\",\"severity\":\"notice\",\"msg\":\"hi\",\"user_id\":5}"
        :> JObject([ts |-> JString("2024-06-01 12:00:00"),
                    severity |-> JString("notice"),
                    msg |-> JString("hi"),
                    user_id |-> JNumber("5")])
    @@ "{\"timestamp\": \"2024-06-01T12:00:00\", \"level\": \"ERROR\", \"message\": \"disk\"}"
        :> JObject([timestamp |-> JString("2024-06-01T12:00:00"),
                    level |-> JString("ERROR"),
                    message |-> JString("disk")])
    @@ "404" :> JNumber("404")

\* json.dumps of the value of each text: default separators, keys in order
JsonDumps ==
    [t \in DOMAIN JsonDocuments |->
        IF t = "{\"ts\":\"2024-06-01 12:00:00\",\"severity\":\"notice\",\"msg\":\"hi\",\"user_id\":5}"
        THEN "{\"ts\": \"2024-06-01 12:00:00\", \"severity\": \"notice\", \"msg\": \"hi\", \"user_id\": 5}"
        ELSE t]

\* json.loads(line) does not raise json.JSONDecodeError
Decodes(line) == Len(line) = 1 /\ line[1] \in DOMAIN JsonDocuments

json_loads(line) == JsonDocuments[line[1]]

json_dumps(obj) ==
    JsonDumps[CHOOSE t \in DOMAIN JsonDocuments : JsonDocuments[t] = obj]

\* str(value) of a string or a number
PyStr(v) == v.value

\* the truth value of a JSON value
PyTruthy(v) ==
    IF v.type = "string" THEN v.value # ""
    ELSE IF v.type = "number" THEN v.value # "0"
    ELSE IF v.type = "object" THEN DOMAIN v.value # {}
    ELSE FALSE

\* str.upper().strip() on the texts that it changes
UpperStrip == "notice" :> "NOTICE" @@ "warning" :> "WARNING" @@ "info" :> "INFO"

main_upper_strip(text) == IF text \in DOMAIN UpperStrip THEN UpperStrip[text] ELSE text

-----------------------------------------------------------------------------
(* main.py: JSON fast path *)

\* texts the formats of main.normalize_timestamp parse after "Z" and "+00:00"
\* are removed, with dt.isoformat() of each
MainIsoFormat ==
    "2025-07-04T10:00:00Z" :> "2025-07-04T10:00:00"
        @@ "2025-07-04T10:00:01Z" :> "2025-07-04T10:00:01"
        @@ "2024-06-01T12:00:02Z" :> "2024-06-01T12:00:02"
        @@ "2024-06-01 12:00:00" :> "2024-06-01T12:00:00"
        @@ "2024-06-01 12:00:01" :> "2024-06-01T12:00:01"
        @@ "2024-06-01T12:00:00" :> "2024-06-01T12:00:00"

main_normalize_timestamp(timestamp_str) ==
    IF ~Truthy(timestamp_str) THEN None
    ELSE IF timestamp_str \in DOMAIN MainIsoFormat THEN MainIsoFormat[timestamp_str]
    ELSE timestamp_str

timestamp_synonyms == <<"timestamp", "ts", "time", "date", "datetime", "@timestamp">>
level_synonyms == <<"level", "severity", "log_level", "lvl", "priority">>
message_synonyms == <<"message", "msg", "log", "log_message", "text", "body", "content">>

Range(seq) == {seq[i] : i \in 1..Len(seq)}

\* the first key of synonyms that obj has with a truthy value, or None
FirstPresent(obj, synonyms) ==
    LET hits == {i \in 1..Len(synonyms) :
                    synonyms[i] \in DOMAIN obj /\ PyTruthy(obj[synonyms[i]])}
    IN  IF hits = {} THEN None
        ELSE synonyms[CHOOSE i \in hits : \A j \in hits : i <= j]

\* extract_json_fields for a JSON object
extract_json_fields(obj) ==
    LET o  == obj.value
        tk == FirstPresent(o, timestamp_synonyms)
        lk == FirstPresent(o, level_synonyms)
        mk == FirstPresent(o, message_synonyms)
        others == DOMAIN o \ (Range(timestamp_synonyms) \cup Range(level_synonyms)
                                 \cup Range(message_synonyms))
    IN  [timestamp |-> IF tk = None THEN None
                       ELSE main_normalize_timestamp(PyStr(o[tk])),
         level     |-> IF lk = None THEN None
                       ELSE CanonicalLevel(main_upper_strip(PyStr(o[lk]))),
         message   |-> IF mk = None THEN None ELSE PyStr(o[mk]),
         metadata  |-> [key \in others |->
                           IF o[key].type \in {"object", "array"} THEN o[key]
                           ELSE JString(PyStr(o[key]))],
         rawData   |-> json_dumps(obj)]

\* the loop of parse_hybrid_json from line i on; a decoded value that is not
\* an object makes extract_json_fields raise TypeError or AttributeError,
\* which the except clause for json.JSONDecodeError does not catch
RECURSIVE HybridFrom(_, _, _)
HybridFrom(ls, i, acc) ==
    IF i > Len(ls) THEN acc
    ELSE LET line == Strip(ls[i])
         IN  IF line = <<>> THEN HybridFrom(ls, i + 1, acc)
             ELSE IF ~Decodes(line)
                  THEN HybridFrom(ls, i + 1,
                           [acc EXCEPT !.unstructured_lines = Append(@, line)])
             ELSE IF json_loads(line).type # "object"
                  THEN [acc EXCEPT !.raised = TRUE]
             ELSE HybridFrom(ls, i + 1,
                      [acc EXCEPT !.parsed_entries =
                                      Append(@, extract_json_fields(json_loads(line)))])

parse_hybrid_json(ls) ==
    HybridFrom(ls, 1, [raised |-> FALSE, parsed_entries |-> <<>>,
                       unstructured_lines |-> <<>>])

-----------------------------------------------------------------------------
(* main.py: regex extractor, format detection and the access-log parser *)

\* level_patterns of main.extract_structured_fields_from_ml: the three of
\* _extract_level and two more
main_level_patterns ==
    level_patterns \o
    << ("[ERROR]" :> "ERROR"),
       ("INFO" :> "INFO" @@ "ERROR" :> "ERROR" @@ "Error" :> "ERROR"
            @@ "CRITICAL" :> "CRITICAL") >>

\* timestamp_patterns of main.extract_structured_fields_from_ml: the four of
\* _extract_timestamp, the access-log and the syslog pattern
main_timestamp_patterns == timestamp_patterns \o << <<>>, <<>> >>

RECURSIVE MainExtractLevelFrom(_, _)
MainExtractLevelFrom(content, p) ==
    IF p > Len(main_level_patterns) THEN None
    ELSE LET i == FirstIn(content, DOMAIN main_level_patterns[p])
         IN  IF i > 0 THEN CanonicalLevel(main_level_patterns[p][content[i]])
             ELSE MainExtractLevelFrom(content, p + 1)

RECURSIVE MainExtractTimestampFrom(_, _)
MainExtractTimestampFrom(content, p) ==
    IF p > Len(main_timestamp_patterns) THEN None
    ELSE LET i == FirstIn(content, DOMAIN main_timestamp_patterns[p])
         IN  IF i > 0
             THEN main_normalize_timestamp(main_timestamp_patterns[p][content[i]])
             ELSE MainExtractTimestampFrom(content, p + 1)

\* extract_structured_fields_from_ml(content=line); of its field patterns
\* the tokens of this model meet ip_address and request_id
main_extract_structured_fields_from_ml(content) ==
    [timestamp |-> MainExtractTimestampFrom(content, 1),
     level     |-> MainExtractLevelFrom(content, 1),
     message   |-> content,
     metadata  |-> AddPatternFields(<<>>, content, 1),
     rawData   |-> content]

DefaultLogFormat == "<Date> <Time> <Level>: <Content>"

\* format_patterns of detect_log_format: the format string of each pattern
\* and the lines of this model the pattern matches
format_patterns ==
    << [format_str |-> "<Date> <Time> <Level> <Content>", matched |-> {}],
       [format_str |-> "<Date> <Time> <Host> <Process>: <Content>", matched |-> {}],
       [format_str |-> "<Date> <Time> <Level> <Content>", matched |-> {}],
       [format_str |-> "<Date> <Time> - <Level> <Content>", matched |-> {}],
       [format_str |-> "apache_nginx", matched |-> {}],
       [format_str |-> "<Date> <Container> <Content>", matched |-> {}],
       [format_str |-> "<Date> <Pod> <Container> <Content>", matched |-> {}] >>

\* format_scores is a dict: a format string keeps the place of its first
\* pattern with a match and the score of its last one; max takes the first
\* of the highest scores
detect_log_format(ls) ==
    IF ls = <<>> THEN DefaultLogFormat
    ELSE LET sample_lines == SubSeq(ls, 1, IF Len(ls) < 5 THEN Len(ls) ELSE 5)
             matches(p) == Cardinality({i \in 1..Len(sample_lines) :
                                           sample_lines[i] \in format_patterns[p].matched})
             scored == {p \in 1..Len(format_patterns) : matches(p) > 0}
             same(p) == {q \in scored : format_patterns[q].format_str
                                           = format_patterns[p].format_str}
             place(p) == CHOOSE q \in same(p) : \A r \in same(p) : q <= r
             score(p) == matches(CHOOSE q \in same(p) : \A r \in same(p) : q >= r)
         IN  IF scored = {} THEN DefaultLogFormat
             ELSE LET best == CHOOSE p \in scored :
                                 /\ place(p) = p
                                 /\ \A q \in scored :
                                       \/ score(q) < score(p)
                                       \/ (score(q) = score(p) /\ place(q) >= p)
                  IN  IF score(best) * 10 >= 6 * Len(sample_lines)
                      THEN format_patterns[best].format_str
                      ELSE DefaultLogFormat

\* parse_apache_nginx_logs: no line of this model matches the access-log
\* pattern, so every line takes the branch for non-matching lines
parse_apache_nginx_logs(ls) ==
    [i \in 1..Len(ls) |->
        [timestamp |-> None, level |-> "INFO", message |-> ls[i],
         metadata |-> <<>>, rawData |-> ls[i]]]

-----------------------------------------------------------------------------
(* main.py: the /parse handler *)

\* lines of uploaded files: JSON documents, log text and a blank line
SampleFileLines ==
    { <<t>> : t \in DOMAIN JsonDocuments } \cup
    { <<"2024-06-01 12:00:00", "INFO", "start">>,
      <<"    ", "at", "foo.bar(x.js:1)">>,
      <<"hello">>,
      <<>> }

pipeline_vars == <<lines, pc, best_algorithm, tried, last, parsed, propagated,
                   result, stages, algo_idx, temp_dir, raised, detected>>

\* parse_log up to its call of ml_parser.parse_logs_intelligently; an
\* exception, the HTTPException for the empty file included, is caught by
\* the outer except clause and answered with status 500
ParseLog(upload, log_format) ==
    /\ http_pc = "idle"
    /\ file_lines' = upload
    /\ LET lines_read == NonEmptyLines(upload)
           hybrid == parse_hybrid_json(lines_read)
           format == IF Truthy(log_format) THEN log_format
                     ELSE detect_log_format(lines_read)
       IN  IF lines_read = <<>> \/ hybrid.raised
           THEN /\ response' = [status_code |-> 500, content |-> <<>>]
                /\ http_pc' = "done"
                /\ UNCHANGED unstructured_lines
           ELSE /\ unstructured_lines' = hybrid.unstructured_lines
                /\ IF hybrid.parsed_entries # <<>>
                   THEN /\ response' = [status_code |-> 200,
                                        content |-> hybrid.parsed_entries]
                        /\ http_pc' = "done"
                   ELSE IF format = "apache_nginx"
                   THEN /\ response' = [status_code |-> 200,
                                        content |-> parse_apache_nginx_logs(lines_read)]
                        /\ http_pc' = "done"
                   ELSE /\ http_pc' = "ml"
                        /\ UNCHANGED response
    /\ UNCHANGED pipeline_vars
    /\ UNCHANGED concurrent_vars

\* ml_entries = ml_parser.parse_logs_intelligently(unstructured_lines)
CallPipeline ==
    /\ http_pc = "ml"
    /\ Call(unstructured_lines)

\* the return of parse_log after the pipeline: its records, or the regex
\* extractor on every line when it returned none or raised
Respond ==
    /\ http_pc = "ml"
    /\ pc = "done"
    /\ response' =
          [status_code |-> 200,
           content |-> IF ~raised /\ result # <<>> THEN result
                       ELSE [i \in 1..Len(unstructured_lines) |->
                                main_extract_structured_fields_from_ml(
                                    unstructured_lines[i])]]
    /\ http_pc' = "done"
    /\ UNCHANGED <<file_lines, unstructured_lines>>
    /\ UNCHANGED pipeline_vars
    /\ UNCHANGED concurrent_vars

NextParse ==
    \/ \E upload \in SeqsUpTo(SampleFileLines, MaxLines) :
          \E log_format \in {None, "apache_nginx"} : ParseLog(upload, log_format)
    \/ CallPipeline
    \/ DetectCharacteristics
    \/ SelectAlgorithm
    \/ \E outcome \in EngineOutcomes : TryPrimary(outcome)
    \/ \E outcome \in EngineOutcomes : TryFallbackAlgorithm(outcome)
    \/ RegexFallback
    \/ Propagate
    \/ Stitch
    \/ Respond

SpecParse == Init /\ [][NextParse]_vars

-----------------------------------------------------------------------------
(* Concurrent calls of parse_logs_intelligently on the one ml_parser *)

\* batches the concurrent callers pass
SampleBatches ==
    { <<>>,
      << <<"hello">> >>,
      << <<"2024-06-01 12:00:01", "ERROR", "boom">>,
         <<"    ", "at", "foo.bar(x.js:1)">> >> }

\* variant that gives every call the same directory
NewTempDir_shared(existing) == "tmp1"

\* tempfile.TemporaryDirectory(): a directory that does not exist yet
NewTempDir(existing) == CHOOSE d \in TempDirNames : d \notin existing

InFlight(c) == calls[c].pc \notin {"idle", "done"}

\* what follows one call of parse_with_ml_algorithm: a non-empty result goes
\* on to the post-processing, an empty one or an exception to the next of
\* fallback_algorithms that is not best_algorithm, and after the last of them
\* to the final regex fallback
AfterAttempt(call, entries, outcome) ==
    LET later == {i \in (call.algo_idx + 1)..Len(fallback_algorithms) :
                     fallback_algorithms[i] # call.best_algorithm}
    IN  IF entries # <<>>
        THEN [call EXCEPT !.pc = "post", !.entries = entries, !.outcome = outcome]
        ELSE IF later # {}
        THEN LET i == CHOOSE i \in later : \A j \in later : i <= j
             IN  [call EXCEPT !.pc = "write", !.algo_idx = i,
                              !.algorithm = fallback_algorithms[i],
                              !.outcome = outcome]
        ELSE [call EXCEPT !.pc = "post", !.via_regex = TRUE,
                          !.algo_idx = Len(fallback_algorithms) + 1,
                          !.entries = fallback_parsing(call.lines),
                          !.outcome = outcome]

\* entry of parse_logs_intelligently up to the first call of
\* parse_with_ml_algorithm
ConcurrentCall(c, ls) ==
    /\ calls[c].pc = "idle"
    /\ LET overlap == \E o \in CallIds \ {c} : InFlight(o)
           marked == [o \in CallIds |->
                         IF InFlight(o) THEN [calls[o] EXCEPT !.overlap = TRUE]
                         ELSE calls[o]]
       IN  IF ls = <<>>
           THEN /\ calls' = [marked EXCEPT ![c] =
                                [@ EXCEPT !.pc = "done", !.lines = ls,
                                          !.overlap = overlap]]
                /\ UNCHANGED fs
           ELSE LET best == select_best_algorithm(detect_log_characteristics(ls))
                    d == NewTempDir({x \in TempDirNames : fs[x].exists})
                IN  /\ calls' = [marked EXCEPT ![c] =
                                    [@ EXCEPT !.pc = "write", !.lines = ls,
                                              !.best_algorithm = best,
                                              !.algorithm = best,
                                              !.temp_dir = d,
                                              !.overlap = overlap]]
                    /\ fs' = [fs EXCEPT ![d] = EmptyDir]
    /\ UNCHANGED <<pipeline_vars, service_vars>>

\* parse_with_ml_algorithm up to the end of the with block that writes
\* input.log; ok is whether open and write succeed
WriteInput(c, ok) ==
    LET call == calls[c]
        non_empty_lines == NonEmptyLines(call.lines)
    IN  /\ call.pc = "write"
        /\ IF non_empty_lines = <<>>
           THEN /\ calls' = [calls EXCEPT ![c] = AfterAttempt(call, <<>>, "not_run")]
                /\ UNCHANGED fs
           ELSE IF ~ok \/ ~fs[call.temp_dir].exists
           THEN /\ calls' = [calls EXCEPT ![c] = AfterAttempt(call, <<>>, "io_error")]
                /\ UNCHANGED fs
           ELSE /\ calls' = [calls EXCEPT ![c].pc = "engine"]
                /\ fs' = [fs EXCEPT ![call.temp_dir].has_input = TRUE,
                                    ![call.temp_dir].input = non_empty_lines]
        /\ UNCHANGED <<pipeline_vars, service_vars>>

\* parser.parse("input.log"): the engine reads input.log of its indir and
\* leaves its csv, or none, in its outdir; an engine that raises, or finds no
\* input.log, sends the call to fallback_parsing
RunEngine(c, outcome) ==
    LET call == calls[c]
        dir == fs[call.temp_dir]
    IN  /\ call.pc = "engine"
        /\ outcome # "io_error"
        /\ IF outcome = "raise" \/ call.algorithm \notin algorithms
              \/ ~dir.exists \/ ~dir.has_input
           THEN /\ calls' = [calls EXCEPT ![c] =
                                AfterAttempt(call,
                                    fallback_parsing(NonEmptyLines(call.lines)), "raise")]
                /\ UNCHANGED fs
           ELSE /\ calls' = [calls EXCEPT ![c].pc = "read", ![c].outcome = outcome]
                /\ fs' = [fs EXCEPT
                             ![call.temp_dir].has_csv = (outcome # "no_output"),
                             ![call.temp_dir].csv = StructuredCsv(dir.input, outcome)]
        /\ UNCHANGED <<pipeline_vars, service_vars>>

\* the rest of parse_with_ml_algorithm: read the csv when it exists
ReadResults(c) ==
    LET call == calls[c]
        dir == fs[call.temp_dir]
    IN  /\ call.pc = "read"
        /\ calls' = [calls EXCEPT ![c] =
                        AfterAttempt(call,
                            IF dir.exists /\ dir.has_csv
                            THEN convert_ml_results_to_entries(dir.csv)
                            ELSE fallback_parsing(NonEmptyLines(call.lines)),
                            call.outcome)]
        /\ UNCHANGED fs
        /\ UNCHANGED <<pipeline_vars, service_vars>>

\* propagation, stitching, the return and the exit of the with block
Finish(c) ==
    LET call == calls[c]
    IN  /\ call.pc = "post"
        /\ calls' = [calls EXCEPT
                        ![c].pc = "done",
                        ![c].result = stitch_multiline_logs(
                                          propagate_fields_across_entries(call.entries))]
        /\ fs' = [fs EXCEPT ![call.temp_dir] = NoDir]
        /\ UNCHANGED <<pipeline_vars, service_vars>>

NextConcurrent ==
    \/ \E c \in CallIds : \E ls \in SampleBatches : ConcurrentCall(c, ls)
    \/ \E c \in CallIds : \E ok \in BOOLEAN : WriteInput(c, ok)
    \/ \E c \in CallIds : \E outcome \in EngineOutcomes : RunEngine(c, outcome)
    \/ \E c \in CallIds : ReadResults(c)
    \/ \E c \in CallIds : Finish(c)

SpecConcurrent == Init /\ [][NextConcurrent]_vars

-----------------------------------------------------------------------------
(* Properties *)

IsBlank(line) == Strip(line) = <<>>

NonBlankCount(ls) == Cardinality({i \in 1..Len(ls) : ~IsBlank(ls[i])})

\* the position, among the non-blank lines, of non-blank line i
NonBlankRank(ls, i) == Cardinality({k \in 1..i : ~IsBlank(ls[k])})

Returned == pc = "done" /\ ~raised

\* the records of the call came from the regex field extractor
FromRegex ==
    /\ pc \in {"propagate", "stitch", "done"}
    /\ parsed # <<>>
    /\ (UsedRegexFallback \/ last.via = "fallback_parsing")

\* a line with a timestamp and a level keyword
IsHeaderLine(line) ==
    ~IsBlank(line) /\ _extract_timestamp(line) # None /\ _extract_level(line) # None

\* an indented stack-frame line with neither
IsFrameLine(line) ==
    /\ ~IsBlank(line)
    /\ Head(line) \in Whitespace
    /\ _extract_timestamp(line) = None
    /\ _extract_level(line) = None

\* number of frame lines directly after line i
RECURSIVE FramesAfter(_, _)
FramesAfter(ls, i) ==
    IF i + 1 <= Len(ls) /\ IsFrameLine(ls[i + 1]) THEN 1 + FramesAfter(ls, i + 1) ELSE 0

IsStackTraceBatch(ls) ==
    /\ Len(ls) >= 2
    /\ IsHeaderLine(ls[1])
    /\ \A i \in 1..Len(ls) : IsHeaderLine(ls[i]) \/ IsFrameLine(ls[i])
    /\ \E i \in 1..Len(ls) : IsFrameLine(ls[i])

HeaderRank(ls, i) == Cardinality({k \in 1..i : IsHeaderLine(ls[k])})

\* C1: for a batch of timestamp+level lines followed by indented stack frames,
\* parsed by the regex fallback, parse_logs_intelligently returns one record
\* per timestamped line; each keeps its level and its message is the header
\* line followed by its frames, one per line, ending with the last frame.
C1_OneRecordPerTimestampedLine ==
    (Returned /\ FromRegex /\ IsStackTraceBatch(lines)) =>
        /\ Len(result) = Cardinality({i \in 1..Len(lines) : IsHeaderLine(lines[i])})
        /\ \A i \in 1..Len(lines) :
              IsHeaderLine(lines[i]) =>
                 LET r == HeaderRank(lines, i)
                     k == FramesAfter(lines, i)
                 IN  /\ r <= Len(result)
                     /\ result[r].level = _extract_level(lines[i])
                     /\ LineCount(result[r].message) = k + 1
                     /\ k > 0 =>
                           LET m == result[r].message
                               f == Strip(lines[i + k])
                           IN  /\ Len(m) >= Len(f)
                               /\ SubSeq(m, Len(m) - Len(f) + 1, Len(m)) = f

\* a line in which the field extractor finds neither timestamp nor level; the
\* line is taken without surrounding whitespace, so that rawData can be
\* compared with it after the adapter's strip()
IsUnstructuredLine(line) ==
    /\ ~IsBlank(line)
    /\ Strip(line) = line
    /\ _extract_timestamp(line) = None
    /\ _extract_level(line) = None

\* C2: for a batch of n non-blank lines without timestamp or level keyword,
\* parsed by the regex fallback, the call does not fault and returns exactly n
\* records, record i with null timestamp, null level and rawData = line i.
C2_UnstructuredOneRecordPerLine ==
    (pc = "done" /\ lines # <<>>
        /\ (\A i \in 1..Len(lines) : IsUnstructuredLine(lines[i]))
        /\ (UsedRegexFallback \/ last.via = "fallback_parsing")) =>
        /\ ~raised
        /\ Len(result) = Len(lines)
        /\ \A i \in 1..Len(lines) :
              /\ i <= Len(result)
              /\ result[i].timestamp = None
              /\ result[i].level = None
              /\ result[i].rawData = lines[i]

\* C3: for the empty batch and for every batch of blank lines only,
\* parse_logs_intelligently returns the empty sequence and raises no error.
C3_BlankBatchReturnsEmpty ==
    (pc = "done" /\ \A i \in 1..Len(lines) : IsBlank(lines[i])) =>
        (~raised /\ result = <<>>)

C3_Witness ==
    /\ pc = "done"
    /\ Len(lines) >= 2
    /\ \A i \in 1..Len(lines) : IsBlank(lines[i])
    /\ \E i \in 1..Len(lines) : lines[i] # <<>>
    /\ stages = <<"propagate", "stitch">>
    /\ result = <<>>

\* the entries form N blocks of one entry with a timestamp and a message of
\* its own (more than the bare timestamp, which the absorption rule handles)
\* followed by K entries without timestamp whose messages are indented
IsBlockInput(entries, N, K) ==
    /\ Len(entries) = N * (K + 1)
    /\ \A i \in 1..Len(entries) :
          IF (i - 1) % (K + 1) = 0
          THEN /\ Truthy(entries[i].timestamp)
               /\ ~is_timestamp_only(entries[i].timestamp, entries[i].message)
          ELSE /\ ~Truthy(entries[i].timestamp)
               /\ entries[i].message # <<>>
               /\ Head(entries[i].message) \in Whitespace

\* messages i..j of entries joined by newlines
RECURSIVE JoinMessages(_, _, _)
JoinMessages(entries, i, j) ==
    IF i = j THEN entries[i].message
    ELSE entries[i].message \o <<NL>> \o JoinMessages(entries, i + 1, j)

\* C4: stitch_multiline_logs on N timestamped records, each followed by K
\* records without timestamp whose messages are indented continuation lines,
\* returns exactly N records; the message of each is the header message and
\* its K continuation messages, in order, separated by newlines (K+1 lines).
C4_BlocksStitchToHeaders ==
    \A N \in 1..Len(propagated) : \A K \in 1..Len(propagated) :
        (pc = "done" /\ IsBlockInput(propagated, N, K)) =>
            /\ Len(result) = N
            /\ \A r \in 1..N :
                  /\ r <= Len(result)
                  /\ LineCount(result[r].message) = K + 1
                  /\ result[r].message =
                        JoinMessages(propagated, (r - 1) * (K + 1) + 1, r * (K + 1))

\* the order in which the engines are to be tried
EngineChain(best) ==
    <<best>> \o SelectSeq(fallback_algorithms, LAMBDA a : a # best)

IsPrefix(s, t) == Len(s) <= Len(t) /\ SubSeq(t, 1, Len(s)) = s

\* C5: when the selected engine fails the backup engines are tried in the
\* order drain, spell, logcluster, skipping the engine already tried, and the
\* regex field extractor is used only after every engine has failed.
C5_RegexOnlyAfterEveryEngine ==
    /\ pc # "idle" /\ pc # "done" => IsPrefix(tried, EngineChain(best_algorithm))
    /\ FromRegex => tried = EngineChain(best_algorithm)

\* C6: when the engine raises or writes no structured output,
\* parse_with_ml_algorithm raises nothing and returns the field extractor's
\* record for every non-blank input line, one per line, in input order.
C6_EngineFailureRecovered ==
    (tried # <<>> /\ last.outcome \in {"raise", "no_output"}) =>
        /\ ~last.raised
        /\ Len(last.entries) = NonBlankCount(lines)
        /\ \A i \in 1..Len(lines) :
              ~IsBlank(lines[i]) =>
                 LET e == last.entries[NonBlankRank(lines, i)]
                 IN  /\ e.rawData = Strip(lines[i])
                     /\ e.message = Strip(lines[i])
                     /\ e.timestamp = _extract_timestamp(lines[i])
                     /\ e.level = _extract_level(lines[i])
                     /\ e.metadata.parsing_method = "regex_fallback"

C6_Witness ==
    /\ pc = "propagate"
    /\ last.outcome = "raise"
    /\ Len(lines) = 3
    /\ IsBlank(lines[2])
    /\ lines[1] # lines[3]
    /\ Len(parsed) = 2
    /\ parsed = last.entries

\* C7: when the engine returns a single result for more than one non-blank
\* line, the adapter falls back to the field extractor and returns one record
\* per input line.
C7_DegenerateCollapseGuard ==
    (tried # <<>> /\ last.outcome = "collapsed" /\ NonBlankCount(lines) > 1) =>
        /\ last.via = "fallback_parsing"
        /\ Len(last.entries) = NonBlankCount(lines)

\* C8: when every input record has both a timestamp and a level,
\* stitch_multiline_logs returns its input unchanged.
C8_NoOpGuard ==
    (pc = "done" /\ \A i \in 1..Len(propagated) :
                        Truthy(propagated[i].timestamp) /\ Truthy(propagated[i].level))
        => result = propagated

C8_Witness ==
    /\ pc = "done"
    /\ Len(propagated) >= 2
    /\ \A i \in 1..Len(propagated) :
          Truthy(propagated[i].timestamp) /\ Truthy(propagated[i].level)
    /\ \E i \in 2..Len(propagated) : _is_continuation_line(propagated[i].message)
    /\ result = propagated

TrackedKeys == {"timestamp", "level", "trace_id", "request_id", "correlation_id",
                "session_id", "user_id", "process_id"}

\* the value of a tracked key on an entry: a key of the entry itself or of
\* its metadata; None when absent
TrackedValue(entry, k) ==
    IF k \in DOMAIN entry THEN entry[k]
    ELSE IF k \in DOMAIN entry.metadata THEN entry.metadata[k]
    ELSE None

NearestBefore(entries, i, f) ==
    IF \E j \in 1..(i - 1) : Truthy(entries[j][f])
    THEN CHOOSE j \in 1..(i - 1) :
            /\ Truthy(entries[j][f])
            /\ \A m \in (j + 1)..(i - 1) : ~Truthy(entries[m][f])
    ELSE 0

\* C10: after propagate_fields_across_entries the number and order of the
\* records is unchanged and, for timestamp and level, record i has its own
\* original value when it had one, otherwise the value of the nearest
\* preceding record that had one, otherwise null.
C10_NearestPrecedingValue ==
    pc = "stitch" =>
        /\ Len(propagated) = Len(parsed)
        /\ \A i \in 1..Len(parsed) :
              /\ propagated[i].message = parsed[i].message
              /\ propagated[i].rawData = parsed[i].rawData
              /\ propagated[i].metadata = parsed[i].metadata
              /\ \A f \in {"timestamp", "level"} :
                    propagated[i][f] =
                        IF Truthy(parsed[i][f]) THEN parsed[i][f]
                        ELSE IF NearestBefore(parsed, i, f) > 0
                             THEN parsed[NearestBefore(parsed, i, f)][f]
                             ELSE None

C10_Witness ==
    /\ pc = "stitch"
    /\ Len(parsed) >= 3
    /\ Truthy(parsed[1].timestamp) /\ Truthy(parsed[2].timestamp)
    /\ parsed[1].timestamp # parsed[2].timestamp
    /\ parsed[1].level # parsed[2].level /\ Truthy(parsed[2].level)
    /\ ~Truthy(parsed[3].timestamp) /\ ~Truthy(parsed[3].level)
    /\ propagated[3].timestamp = parsed[2].timestamp
    /\ propagated[3].level = parsed[2].level


-----------------------------------------------------------------------------
(* Merging a continuation record into the current record *)

\* the states of the while loop of stitch_multiline_logs, from st to the end
RECURSIVE StitchTrace(_, _)
StitchTrace(entries, st) ==
    IF st.i > Len(entries) THEN <<st>>
    ELSE <<st>> \o StitchTrace(entries, StitchStep(entries, st))

\* the loop runs: the batch is not empty and the no-op guard does not apply
LoopRuns(entries) ==
    /\ entries # <<>>
    /\ \E i \in 1..Len(entries) :
          ~(Truthy(entries[i].timestamp) /\ Truthy(entries[i].level))

LoopTrace(entries) ==
    StitchTrace(entries, [i |-> 1, current |-> <<>>, stitched |-> <<>>])

\* iteration k merged the record it looked at into the current record
IsAppendStep(trace, k) ==
    /\ k < Len(trace)
    /\ trace[k].current # <<>>
    /\ trace[k + 1].current # <<>>
    /\ trace[k + 1].stitched = trace[k].stitched

\* C11: whenever the stitcher appends a continuation record's message to the
\* current record, the current record's rawData becomes its former rawData,
\* a newline, and the continuation record's rawData.
C11_RawDataAppendedWithMessage ==
    (pc = "done" /\ LoopRuns(propagated)) =>
        LET trace == LoopTrace(propagated)
        IN  \A k \in 1..Len(trace) :
                IsAppendStep(trace, k) =>
                    trace[k + 1].current[1].rawData =
                        trace[k].current[1].rawData \o <<NL>>
                            \o propagated[trace[k].i].rawData

\* C12: whenever the stitcher merges a continuation record into the current
\* record, every metadata key the current record already had keeps its value,
\* and the keys it did not have come from the continuation record.
C12_MetadataFirstWriteWins ==
    (pc = "done" /\ LoopRuns(propagated)) =>
        LET trace == LoopTrace(propagated)
        IN  \A k \in 1..Len(trace) :
                IsAppendStep(trace, k) =>
                    LET before == trace[k].current[1].metadata
                        after  == trace[k + 1].current[1].metadata
                    IN  /\ \A key \in DOMAIN before : after[key] = before[key]
                        /\ \A key \in DOMAIN after \ DOMAIN before :
                              \E j \in 1..Len(propagated) :
                                  /\ key \in DOMAIN propagated[j].metadata
                                  /\ after[key] = propagated[j].metadata[key]


-----------------------------------------------------------------------------
(* Analyzer and selector *)

\* the selector has returned a strategy for the characteristics in detected
Selected == pc = "primary" /\ best_algorithm # None

C14_EmptyBatchCharacteristics ==
    (pc # "analyze" /\ lines = <<>>) =>
        /\ ~raised
        /\ detected.fault = None
        /\ detected.total_lines = 0
        /\ detected.avg_line_length[1] = 0
        /\ detected.duplicate_ratio[1] = 0
        /\ ~detected.has_timestamps /\ ~detected.has_ips /\ ~detected.has_hex
        /\ ~detected.has_uuids /\ ~detected.has_json /\ ~detected.has_structured

\* C15: for characteristics with total_lines = 0 that match neither the json
\* rule nor the duplicate rule, select_best_algorithm does not fault, treats
\* the high-diversity rule as false and returns what the later rules give.
C15_ZeroTotalLinesGuard ==
    (/\ pc # "select"
     /\ detected.total_lines = 0
     /\ ~detected.has_json
     /\ ~RatioGreater(detected.duplicate_ratio, 7, 10)) =>
        /\ ~raised
        /\ best_algorithm =
              IF detected.has_timestamps /\ detected.has_ips THEN "iplom"
              ELSE IF detected.has_hex \/ detected.has_uuids THEN "logcluster"
              ELSE "drain"


-----------------------------------------------------------------------------
(* Scratch directory *)

\* C16: a call holds its one temporary directory from the selection of the
\* algorithm until it returns, and at every exit of the call (primary engine,
\* backup engine, final regex fallback, after engine or pipeline exceptions)
\* the directory it acquired has been removed; a call that left before the
\* with block never had one.
C16_ScratchDirRemovedOnExit ==
    /\ pc \in {"idle", "analyze", "select"} => temp_dir = "none"
    /\ pc \in {"primary", "backup", "propagate", "stitch"} => temp_dir = "open"
    /\ pc = "done" =>
          temp_dir = IF best_algorithm # None THEN "removed" ELSE "none"

\* a call that went through an exception of the last engine call and the
\* final regex fallback has returned records
C16_Witness ==
    /\ pc = "done"
    /\ UsedRegexFallback
    /\ last.raised
    /\ result # <<>>
    /\ temp_dir = "removed"


-----------------------------------------------------------------------------
(* JSON fast path and the levels of the service *)

\* the handler has answered with records
Answered == http_pc = "done" /\ response.status_code = 200

\* every line of the file is a JSON object
IsJsonObjectBatch(ls) ==
    /\ ls # <<>>
    /\ \A i \in 1..Len(ls) : Decodes(ls[i]) /\ json_loads(ls[i]).type = "object"

\* the object of line i has key with a non-empty string value
HasStringMember(ls, i, key) ==
    /\ key \in DOMAIN json_loads(ls[i]).value
    /\ json_loads(ls[i]).value[key].type = "string"
    /\ json_loads(ls[i]).value[key].value # ""

\* C18: for a file in which every line is a JSON object with timestamp,
\* level and message, /parse answers with one record per line, in order,
\* whose timestamp, level and message are the values of the object unchanged.
C18_JsonFieldsReturnedUnchanged ==
    (/\ http_pc = "done"
     /\ IsJsonObjectBatch(file_lines)
     /\ \A i \in 1..Len(file_lines) :
           \A key \in {"timestamp", "level", "message"} :
               HasStringMember(file_lines, i, key)) =>
        /\ response.status_code = 200
        /\ Len(response.content) = Len(file_lines)
        /\ \A i \in 1..Len(file_lines) :
              LET obj == json_loads(file_lines[i]).value
              IN  /\ response.content[i].timestamp = obj["timestamp"].value
                  /\ response.content[i].level = obj["level"].value
                  /\ response.content[i].message = obj["message"].value

\* C19: for a file of JSON object lines, the record of a line whose object
\* has a "metadata" key with an object value has that object as its
\* metadata: the same keys, each with the same value of the same JSON type.
C19_JsonMetadataReturned ==
    (http_pc = "done" /\ IsJsonObjectBatch(file_lines)) =>
        /\ response.status_code = 200
        /\ Len(response.content) = Len(file_lines)
        /\ \A i \in 1..Len(file_lines) :
              LET obj == json_loads(file_lines[i]).value
              IN  ("metadata" \in DOMAIN obj /\ obj["metadata"].type = "object") =>
                      response.content[i].metadata = obj["metadata"].value

LogLevels == {"TRACE", "DEBUG", "INFO", "WARN", "ERROR", "FATAL"}

\* C20: every record the service returns, from the pipeline or from the
\* JSON fast path, has a level that is null or one of TRACE, DEBUG, INFO,
\* WARN, ERROR, FATAL.
C20_LevelIsNullOrCanonical ==
    Answered =>
        \A i \in 1..Len(response.content) :
            response.content[i].level \in LogLevels \cup {None}


-----------------------------------------------------------------------------
(* Concurrent calls *)

\* what a call with these lines returns when it runs alone and its engines
\* behave as they did: the records of the attempt that succeeded, or of the
\* final regex fallback, propagated and stitched
ReturnsAlone(call) ==
    IF call.lines = <<>> THEN <<>>
    ELSE stitch_multiline_logs(propagate_fields_across_entries(
             IF call.via_regex THEN fallback_parsing(call.lines)
             ELSE parse_with_ml_algorithm(call.lines, call.algorithm,
                                          call.outcome).entries))

\* C17: calls of parse_logs_intelligently that overlap on the shared parser
\* never hold the same temporary directory, and each returns what it returns
\* when it runs alone.
C17_ConcurrentCallsDoNotInterfere ==
    /\ \A c \in CallIds : \A o \in CallIds \ {c} :
          (InFlight(c) /\ InFlight(o)) => calls[c].temp_dir # calls[o].temp_dir
    /\ \A c \in CallIds :
          calls[c].pc = "done" => calls[c].result = ReturnsAlone(calls[c])

\* two overlapping calls with different batches have both returned records
\* that came from their engines
C17_Witness ==
    /\ \A c \in CallIds :
          /\ calls[c].pc = "done"
          /\ calls[c].overlap
          /\ calls[c].outcome = "per_line"
          /\ calls[c].result # <<>>
    /\ calls[1].lines # calls[2].lines

\* ---- record boundaries of the stitcher ----

\* the mining template a record's metadata carries
TemplateOf(entry) == entry.metadata.ml_template

\* C21: in the stitcher's loop a record starts a new logical record exactly
\* when it carries a timestamp, or its mining template differs from the
\* current record's, or there is no current record; a record that carries a
\* timestamp is never appended to the preceding record.
C21_NewRecordIffTimestampOrTemplate ==
    (pc = "done" /\ LoopRuns(propagated)) =>
        LET trace == LoopTrace(propagated)
        IN  \A k \in 1..(Len(trace) - 1) :
                LET entry == propagated[trace[k].i]
                IN  (~IsAppendStep(trace, k)) <=>
                        \/ Truthy(entry.timestamp)
                        \/ trace[k].current = <<>>
                        \/ TemplateOf(entry) # TemplateOf(trace[k].current[1])

\* the message names an exception, an error or a traceback
NamesException(message) ==
    FragmentsOf(CaseFragments, message) \cap {"Exception", "Error", "Traceback"} # {}

\* C22: a record with a timestamp and a level, whatever the level, whose
\* message contains 'Exception', 'Error' or 'Traceback' always starts a new
\* output record, even when its message is classified as a continuation.
C22_StackTraceHeaderStartsRecord ==
    (pc = "done" /\ LoopRuns(propagated)) =>
        LET trace == LoopTrace(propagated)
        IN  \A k \in 1..(Len(trace) - 1) :
                LET entry == propagated[trace[k].i]
                IN  (/\ Truthy(entry.timestamp)
                     /\ Truthy(entry.level)
                     /\ NamesException(entry.message))
                        => ~IsAppendStep(trace, k)

\* C23: in the stitcher's output every record other than the first that was
\* missing a level carries the level of the record just before it, so a
\* record after one that has a level has a level too.
C23_MissingLevelTakenFromPrevious ==
    pc = "done" =>
        \A r \in 2..Len(result) :
            Truthy(result[r - 1].level) => Truthy(result[r].level)

\* ---- timestamp-only absorption ----

\* record i has a timestamp and a message that is empty or its timestamp
\* string, and record i + 1 has no timestamp and a non-empty message
IsTimestampOnlyPair(entries, i) ==
    /\ i + 1 <= Len(entries)
    /\ Truthy(entries[i].timestamp)
    /\ \/ Strip(entries[i].message) = <<>>
       \/ Strip(entries[i].message) = <<entries[i].timestamp>>
    /\ ~Truthy(entries[i + 1].timestamp)
    /\ Strip(entries[i + 1].message) # <<>>

\* C24: when the stitcher's loop reaches a timestamp-only record followed by a
\* record with no timestamp and a non-empty message, it folds the next
\* record's message and metadata into the timestamp-only record, starts one
\* output record with it, and steps over the next record, so a batch made of
\* such a pair yields one record.
C24_TimestampOnlyAbsorbsNext ==
    (pc = "done" /\ LoopRuns(propagated)) =>
        LET trace == LoopTrace(propagated)
        IN  \A k \in 1..(Len(trace) - 1) :
                LET i == trace[k].i
                IN  IsTimestampOnlyPair(propagated, i) =>
                        /\ trace[k + 1].i = i + 2
                        /\ trace[k + 1].current =
                              <<[propagated[i] EXCEPT
                                    !.message  = propagated[i + 1].message,
                                    !.metadata = DictUpdate(propagated[i].metadata,
                                                            propagated[i + 1].metadata)]>>
                        /\ trace[k + 1].stitched = trace[k].stitched \o trace[k].current
                        /\ (Len(propagated) = 2 => Len(result) = 1)

\* a timestamp-only record in the middle of a batch absorbed the record after it
C24_Witness ==
    /\ pc = "done"
    /\ LoopRuns(propagated)
    /\ Len(propagated) >= 3
    /\ \E k \in 2..(Len(LoopTrace(propagated)) - 1) :
          /\ IsTimestampOnlyPair(propagated, LoopTrace(propagated)[k].i)
          /\ LoopTrace(propagated)[k].current # <<>>
    /\ Len(result) < Len(propagated)

\* ---- order of the post-processing stages ----

\* C25: on every path of parse_logs_intelligently that returns records, the
\* propagator runs exactly once, before the stitcher, which runs exactly once
\* on the propagator's output; what the stitcher returns is what the call
\* returns.
C25_PropagateOnceThenStitchOnce ==
    /\ (pc = "stitch" /\ ~raised) =>
          /\ stages = <<"propagate">>
          /\ propagated = propagate_fields_across_entries(parsed)
    /\ (Returned /\ lines # <<>>) =>
          /\ stages = <<"propagate", "stitch">>
          /\ propagated = propagate_fields_across_entries(parsed)
          /\ result = stitch_multiline_logs(propagated)

\* a backup engine produced the records, the propagator filled a field and
\* the stitcher merged records
C25_Witness ==
    /\ Returned
    /\ Len(tried) >= 2
    /\ ~UsedRegexFallback
    /\ result # <<>>
    /\ propagated # parsed
    /\ stages = <<"propagate", "stitch">>

\* ---- the continuation classifier ----

\* the eight indicators the classifier is said to look for
EightIndicators ==
    {"...", "continued", "stack trace", "caused by", "suppressed",
     "traceback", "exception", "failed"}

\* the message begins with whitespace, or begins with a stack-trace or
\* exception prefix, or contains one of the eight indicators
IndentedPrefixedOrIndicated(message) ==
    /\ message # <<>>
    /\ \/ Head(message) \in Whitespace
       \/ (Strip(message) # <<>> /\ Head(Strip(message)) \in StackTracePrefixes)
       \/ (Len(Strip(message)) >= 2 /\ Head(Strip(message)) = "at")
       \/ FragmentsOf(LowerFragments, message) \cap EightIndicators # {}

\* C26: the classifier accepts a message as a continuation exactly when it
\* begins with whitespace, or matches a stack-trace or exception prefix, or
\* contains one of the eight indicators; a non-indented message with no such
\* prefix and none of the eight indicators is not a continuation.
C26_ContinuationExactlyEightIndicators ==
    (pc = "done" /\ LoopRuns(propagated)) =>
        \A i \in 1..Len(propagated) :
            _is_continuation_line(propagated[i].message)
                <=> IndentedPrefixedOrIndicated(propagated[i].message)

\* ---- propagation before stitching ----

\* the record has a timestamp and a level
IsComplete(entry) == Truthy(entry.timestamp) /\ Truthy(entry.level)

\* C27: in parse_logs_intelligently, whenever the first parsed record has a
\* timestamp and a level, every record has both after propagation, the
\* stitcher returns its input unchanged, and the call returns one record per
\* parsed record; records are merged only when the first parsed record lacks
\* a timestamp or a level.
C27_CompleteFirstRecordMeansNoMerge ==
    /\ (pc \in {"stitch", "done"} /\ ~raised /\ parsed # <<>> /\ IsComplete(parsed[1])) =>
          /\ \A i \in 1..Len(propagated) : IsComplete(propagated[i])
          /\ pc = "done" => (result = propagated /\ Len(result) = Len(parsed))
    /\ (Returned /\ Len(result) < Len(parsed)) => ~IsComplete(parsed[1])

\* a complete first record followed by a record that had neither field: the
\* call returned both records
C27_Witness ==
    /\ Returned
    /\ Len(parsed) >= 2
    /\ IsComplete(parsed[1])
    /\ \E i \in 2..Len(parsed) :
          /\ ~Truthy(parsed[i].timestamp)
          /\ ~Truthy(parsed[i].level)
          /\ _is_continuation_line(parsed[i].message)
    /\ Len(result) = Len(parsed)

\* ---- records without a timestamp ----

\* C28: when the stitcher's loop runs, every record without a timestamp that
\* is looked at while a current record exists is appended to that current
\* record; hence no output record after the first lacks a timestamp.
C28_UntimestampedRecordIsAppended ==
    (pc = "done" /\ LoopRuns(propagated)) =>
        LET trace == LoopTrace(propagated)
        IN  /\ \A k \in 1..(Len(trace) - 1) :
                  (/\ ~Truthy(propagated[trace[k].i].timestamp)
                   /\ trace[k].current # <<>>)
                      => IsAppendStep(trace, k)
            /\ \A r \in 2..Len(result) : Truthy(result[r].timestamp)

\* the first output record has no timestamp, a later one has, and a record
\* without a timestamp that the classifier rejects was appended
C28_Witness ==
    /\ pc = "done"
    /\ LoopRuns(propagated)
    /\ Len(result) >= 2
    /\ ~Truthy(result[1].timestamp)
    /\ \E k \in 2..(Len(LoopTrace(propagated)) - 1) :
          /\ ~Truthy(propagated[LoopTrace(propagated)[k].i].timestamp)
          /\ ~_is_continuation_line(propagated[LoopTrace(propagated)[k].i].message)
          /\ IsAppendStep(LoopTrace(propagated), k)

\* ---- JSON values that are not objects, and mixed batches ----

\* the line is valid JSON whose value is not an object
IsNonObjectJson(line) ==
    /\ Strip(line) # <<>>
    /\ Decodes(Strip(line))
    /\ json_loads(Strip(line)).type # "object"

\* C29: a line of the file that is valid JSON but not a JSON object is not
\* mapped by the JSON fast path: it is passed on as unstructured text, and
\* the request does not fail because of it.
C29_NonObjectJsonIsUnstructured ==
    http_pc \in {"ml", "done"} =>
        \A i \in 1..Len(file_lines) :
            IsNonObjectJson(file_lines[i]) =>
                /\ response.status_code # 500
                /\ \E j \in 1..Len(unstructured_lines) :
                      unstructured_lines[j] = Strip(file_lines[i])

\* the line is a JSON object
IsJsonObjectLine(line) ==
    /\ Strip(line) # <<>>
    /\ Decodes(Strip(line))
    /\ json_loads(Strip(line)).type = "object"

\* the line is not blank and is not valid JSON
IsTextLine(line) == Strip(line) # <<>> /\ ~Decodes(Strip(line))

\* how many of the lines are JSON objects
RECURSIVE JsonObjectCount(_)
JsonObjectCount(ls) ==
    IF ls = <<>> THEN 0
    ELSE (IF IsJsonObjectLine(Head(ls)) THEN 1 ELSE 0) + JsonObjectCount(Tail(ls))

\* the file mixes JSON-object lines with lines that are not JSON
IsMixedBatch(ls) ==
    /\ \E i \in 1..Len(ls) : IsJsonObjectLine(ls[i])
    /\ \E i \in 1..Len(ls) : IsTextLine(ls[i])
    /\ \A i \in 1..Len(ls) : ~IsNonObjectJson(ls[i])

\* C30: for a file that mixes JSON-object lines with non-JSON lines no line
\* is silently dropped: the answer holds the records of the JSON lines and,
\* beyond them, at least one record to which the non-JSON lines contribute.
C30_MixedBatchDropsNoLine ==
    (http_pc = "done" /\ IsMixedBatch(file_lines)) =>
        /\ response.status_code = 200
        /\ Len(response.content) > JsonObjectCount(file_lines)

============================================================================
